---- MODULE Spec2Model ----
(***************************************************************************)
(* Model of the certified-device lookup service (app/main.py): the CSV      *)
(* dataset loader, the filter/pagination query engine, the cold-start       *)
(* readiness gate, the slowapi rate limiter installed on /check, and the    *)
(* /health and /check handlers.                                             *)
(*                                                                          *)
(* Strings are modelled as sequences of one-character strings, so that      *)
(* stripping, case folding and substring search are computed, not assumed.  *)
(***************************************************************************)
EXTENDS Integers, Sequences, FiniteSets, TLC

VARIABLES
    env,                  \* os.environ: the two cold-start settings
    phase,                \* "init" | "serving" | "failed"  (lifespan)
    file,                 \* rows of supported_devices.csv on disk (after the header)
    bom,                  \* the byte-order mark the file on disk starts with
    _detect_encoding_cache, \* lru_cache of _detect_encoding (main.py:119)
    _cold_start_pending,  \* main.py:95
    _cold_start_lock,     \* main.py:96   "None" | "unlocked"
    _cold_start_task,     \* main.py:97   "None" | "scheduled" | "sleeping" | "cancelled"
    sleep_until,          \* the tick the task's asyncio.sleep() ends at (-1: no sleep)
    now,                  \* the clock the limiter reads, in ticks
    storage,              \* limiter's in-memory storage: key -> [count, expiry]
    response,             \* the response to the last request
    refresh,              \* refresh_dataset.py: the tool's run, its metadata file, the remote
    hist                  \* history of the run (read by the properties only)

vars == <<env, phase, file, bom, _detect_encoding_cache, _cold_start_pending,
          _cold_start_lock, _cold_start_task, sleep_until, now, storage, response,
          refresh, hist>>

----------------------------------------------------------------------------
(* Bounds of the model *)

\* longest table drawn for the query-engine specification
MaxRows == 3
\* largest page and limit drawn for the query-engine specification
MaxPage == 3
\* The limit string "200/30minutes;50/5minutes" is scaled down: LongCap hits
\* per LongWindow ticks, then ShortCap hits per ShortWindow ticks.
LongCap == 3
LongWindow == 4
ShortCap == 2
ShortWindow == 2
\* the clock stops at MaxTime in the limiter specification and at
\* MaxServiceTime in the service specification
MaxTime == 4
MaxServiceTime == 2
\* /check requests that reach the limiter in a run: of the limiter
\* specification, and of the service specification
MaxRequests == 5
MaxServiceRequests == 3
\* /check requests in a run of the identity specification
MaxIdentityRequests == 1
\* /check requests in a run of the loader specification
MaxLoadRequests == 3
\* the warm-up specification: the clock's last tick while no timer is
\* sleeping, and the /check requests in a run
MaxLiveTime == 1
MaxLiveRequests == 2
\* the settings specification: the clock's last tick and the /check requests
MaxEnvTime == 1
MaxEnvRequests == 2

----------------------------------------------------------------------------
(* Strings *)

None == <<"None">>          \* Python's None for an Optional[str]
NA   == <<"NaN">>           \* an absent CSV cell (pandas NaN)

IsSpace(c) == c = " "

\* str.upper() on one character
UpperChar(c) ==
    CASE c = "a" -> "A"
      [] c = "b" -> "B"
      [] c = "o" -> "O"
      [] c = "n" -> "N"
      [] OTHER   -> c

Upper(s) == [i \in 1..Len(s) |-> UpperChar(s[i])]

\* str.lower() on one character
LowerChar(c) ==
    CASE c = "A" -> "a"
      [] c = "B" -> "b"
      [] c = "O" -> "o"
      [] c = "N" -> "n"
      [] OTHER   -> c

Lower(s) == [i \in 1..Len(s) |-> LowerChar(s[i])]

RECURSIVE LStrip(_)
LStrip(s) == IF s # <<>> /\ IsSpace(Head(s)) THEN LStrip(Tail(s)) ELSE s

RECURSIVE RStrip(_)
RStrip(s) ==
    IF s # <<>> /\ IsSpace(s[Len(s)]) THEN RStrip(SubSeq(s, 1, Len(s) - 1)) ELSE s

\* str.strip()
Strip(s) == RStrip(LStrip(s))

\* Python's  pat in s
Contains(s, pat) ==
    \E i \in 1..(Len(s) - Len(pat) + 1) : SubSeq(s, i, i + Len(pat) - 1) = pat

\* Series.str.contains(pat, case=False, na=False, regex=False) on one cell
StrContainsNoCase(cell, pat) == Contains(Upper(cell), Upper(pat))

\* Python truthiness of an Optional[str]
Truthy(s) == s # None /\ s # <<>>

----------------------------------------------------------------------------
(* Dataset loader *)

Columns == {"retail_branding", "marketing_name", "device", "model"}

\* .fillna("") followed by .str.strip() on one cell
NormalizeCell(c) == IF c = NA THEN <<>> ELSE Strip(c)

Missing == <<"missing">>    \* the CSV file does not exist

\* _load_dataset() applied to the file content f: every call parses the file
\* as it is on disk at that moment (the function carries no cache decorator;
\* only _detect_encoding does) and normalises every cell.
_load_dataset(f) ==
    [i \in 1..Len(f) |-> [col \in Columns |-> NormalizeCell(f[i][col])]]

\* The first bytes of a file: a UTF-16 little- or big-endian byte-order mark,
\* a UTF-8 signature, or none of them.
Boms == {"fffe", "feff", "efbbbf", "none"}

\* the body of _detect_encoding(): the encoding named by the file's prefix
_detect_encoding(b) ==
    IF b \in {"fffe", "feff"} THEN "utf-16"
    ELSE IF b = "efbbbf" THEN "utf-8-sig"
    ELSE "utf-8"

NoEncoding == "empty"       \* the lru_cache holds no entry

\* _detect_encoding(data_path) through its lru_cache: the path is the same at
\* every call, so an entry, once made, answers every later call
CachedEncoding(cache, b) == IF cache = NoEncoding THEN _detect_encoding(b) ELSE cache

\* pd.read_csv(..., encoding=enc) can read a file that starts with b: UTF-16
\* text is not valid UTF-8 (the mark's bytes never are), and UTF-8 text read
\* as UTF-16 loses its commas and line ends, so that the four column names
\* cannot be assigned; a UTF-8 signature read as plain UTF-8, or the reverse,
\* only alters the header line, which is discarded.
Decodable(b, enc) == (enc = "utf-16") <=> (b \in {"fffe", "feff"})

----------------------------------------------------------------------------
(* Query engine *)

ColumnOf(param) ==
    CASE param = "brand" -> "retail_branding"
      [] param = "marketing_name" -> "marketing_name"
      [] param = "device" -> "device"
      [] param = "model" -> "model"

FilterParams == {"brand", "marketing_name", "device", "model"}

\* MaskTerm with the case folding left out
MaskTermCaseSensitive(row, flt, param) ==
    Truthy(flt[param]) => Contains(row[ColumnOf(param)], flt[param])

\* one  "if p: mask &= df[col].str.contains(p, ...)"  step
MaskTerm(row, flt, param) ==
    Truthy(flt[param]) => StrContainsNoCase(row[ColumnOf(param)], flt[param])

\* the boolean mask of one row (main.py:173-184)
Mask(row, flt) == \A param \in FilterParams : MaskTerm(row, flt, param)

\* df[mask]: the rows whose mask is true, in table order
RECURSIVE Filtered(_, _)
Filtered(df, flt) ==
    IF df = <<>> THEN <<>>
    ELSE IF Mask(Head(df), flt)
         THEN <<Head(df)>> \o Filtered(Tail(df), flt)
         ELSE Filtered(Tail(df), flt)

\* Python floor division by a positive divisor
FloorDiv(a, b) == IF a >= 0 THEN a \div b ELSE -((-a + b - 1) \div b)

\* TotalPages rounding down
TotalPagesFloor(total_matches, limit) == total_matches \div limit

\* main.py:188-191
TotalPages(total_matches, limit) ==
    IF total_matches = 0 THEN 0 ELSE -FloorDiv(-total_matches, limit)

\* filtered.iloc[a:b] for 0 <= a <= b
ILoc(s, a, b) ==
    LET hi == IF b > Len(s) THEN Len(s) ELSE b
    IN  IF a >= hi THEN <<>> ELSE SubSeq(s, a + 1, hi)

\* Limited with a 0-indexed page
LimitedFromPage(filtered, page, limit) ==
    LET offset == page * limit
    IN  IF offset >= Len(filtered) THEN <<>>
        ELSE ILoc(filtered, offset, offset + limit)

\* main.py:193-197
Limited(filtered, page, limit) ==
    LET offset == (page - 1) * limit
    IN  IF offset >= Len(filtered) THEN <<>>
        ELSE ILoc(filtered, offset, offset + limit)

NoBody == [total_matches |-> 0, limit |-> 0, page |-> 0, total_pages |-> 0,
           results |-> <<>>]

\* QueryTable with a cursor: the page counts on from the page last served
QueryTableCursor(df, flt, limit, page) ==
    LET filtered == Filtered(df, flt)
    IN  [total_matches |-> Len(filtered),
         limit         |-> limit,
         page          |-> page + response.body.page,
         total_pages   |-> TotalPages(Len(filtered), limit),
         results       |-> Limited(filtered, page + response.body.page, limit)]

\* main.py:173-215: the payload computed from the table df
QueryTable(df, flt, limit, page) ==
    LET filtered == Filtered(df, flt)
    IN  [total_matches |-> Len(filtered),
         limit         |-> limit,
         page          |-> page,
         total_pages   |-> TotalPages(Len(filtered), limit),
         results       |-> Limited(filtered, page, limit)]

\* _filter_devices() with the CSV file holding f: [status, detail, body]
_filter_devices(f, flt, limit, page) ==
    IF limit <= 0
    THEN [status |-> 400, detail |-> "limit must be a positive integer", body |-> NoBody]
    ELSE IF page <= 0
    THEN [status |-> 400, detail |-> "page must be a positive integer", body |-> NoBody]
    ELSE [status |-> 200, detail |-> "",
          body |-> QueryTable(_load_dataset(f), flt, limit, page)]

----------------------------------------------------------------------------
(* Environment settings (main.py:53-97) *)

\* _read_bool_env(): raw is None or the variable's text
_read_bool_env(raw, default) ==
    IF raw = None THEN default
    ELSE Lower(Strip(raw)) \in {<<"1">>, <<"t","r","u","e">>, <<"y","e","s">>, <<"o","n">>}

\* A float setting is [kind, halves]: unset, text float() rejects ("bad"), or
\* a number counted in half seconds.
UnsetFloat == [kind |-> "unset", halves |-> 0]
BadFloat   == [kind |-> "bad", halves |-> 0]
Num(h)     == [kind |-> "num", halves |-> h]

\* _read_float_env(), in half seconds
_read_float_env(raw, default) ==
    IF raw.kind = "num" THEN raw.halves ELSE default

Max(a, b) == IF a >= b THEN a ELSE b

SIMULATE_COLD_START == _read_bool_env(env.SIMULATE_COLD_START, FALSE)

\* main.py:91-93, in half seconds
COLD_START_DELAY_SECONDS == Max(0, _read_float_env(env.COLD_START_DELAY_SECONDS, 0))

\* ColdStartPendingAtImport without the test of the delay
ColdStartPendingIgnoringDelay == SIMULATE_COLD_START

\* main.py:95
ColdStartPendingAtImport == SIMULATE_COLD_START /\ COLD_START_DELAY_SECONDS > 0

\* int(COLD_START_DELAY_SECONDS): truncation of a non-negative float to seconds
IntSeconds(halves) == halves \div 2

\* RetryAfterWarming without the floor of one second
RetryAfterWarmingUnclamped == IntSeconds(COLD_START_DELAY_SECONDS)

\* main.py:242
RetryAfterWarming ==
    IF COLD_START_DELAY_SECONDS # 0 THEN Max(1, IntSeconds(COLD_START_DELAY_SECONDS)) ELSE 1

----------------------------------------------------------------------------
(* Client identity (main.py:265-286) *)

\* str.split(","): the parts between commas
RECURSIVE SplitComma(_, _)
SplitComma(s, acc) ==
    IF s = <<>> THEN <<acc>>
    ELSE IF Head(s) = "," THEN <<acc>> \o SplitComma(Tail(s), <<>>)
    ELSE SplitComma(Tail(s), Append(acc, Head(s)))

\* the first part that is non-empty after strip(), or <<>> when there is none
RECURSIVE FirstNonEmpty(_)
FirstNonEmpty(parts) ==
    IF parts = <<>> THEN <<>>
    ELSE IF Strip(Head(parts)) # <<>> THEN Strip(Head(parts))
    ELSE FirstNonEmpty(Tail(parts))

Unknown == <<"unknown">>

\* _client_identifier(request); h holds the three headers and client.host
_client_identifier(h) ==
    IF Truthy(h.xff) /\ FirstNonEmpty(SplitComma(h.xff, <<>>)) # <<>>
    THEN FirstNonEmpty(SplitComma(h.xff, <<>>))
    ELSE IF Truthy(h.real_ip) THEN Strip(h.real_ip)
    ELSE IF Truthy(h.cf_ip) THEN Strip(h.cf_ip)
    ELSE IF Truthy(h.client) THEN h.client
    ELSE Unknown

----------------------------------------------------------------------------
(* Rate limiter: Limiter(key_func=_client_identifier) with no strategy and no *)
(* storage argument, i.e. slowapi's defaults: the fixed-window strategy over  *)
(* in-memory storage. A key's window opens at its first hit and the counter   *)
(* is dropped once the window's expiry has passed.                            *)

\* "200/30minutes;50/5minutes", in the order the decorator lists them
Limits == <<"long", "short">>

Amount(lim) == IF lim = "long" THEN LongCap ELSE ShortCap
Expiry(lim) == IF lim = "long" THEN LongWindow ELSE ShortWindow

\* LimitKey with one bucket for all clients
LimitKeyShared(id, lim) == <<<<"*">>, lim>>

\* the storage key of a limit: the client identity and the limit
LimitKey(id, lim) == <<id, lim>>

Live(st, k, t) == k \in DOMAIN st /\ st[k].expiry > t

\* storage.incr(key, expiry): the counter after this hit
Incr(st, k, expiry, t) ==
    LET entry == IF Live(st, k, t)
                 THEN [count |-> st[k].count + 1, expiry |-> st[k].expiry]
                 ELSE [count |-> 1, expiry |-> t + expiry]
    IN  [x \in DOMAIN st \cup {k} |-> IF x = k THEN entry ELSE st[x]]

\* limiter.hit(item, key): counts the hit, then compares with the amount
HitAllowed(st, k, lim) == st[k].count <= Amount(lim)

\* the limits are hit in order and evaluation stops at the first that fails;
\* a limit whose key is empty is skipped: [storage, failed]
RECURSIVE EvaluateLimits(_, _, _, _)
EvaluateLimits(st, id, t, i) ==
    IF i > Len(Limits) THEN [storage |-> st, failed |-> "none"]
    ELSE IF id = <<>> THEN EvaluateLimits(st, id, t, i + 1)
    ELSE LET k   == LimitKey(id, Limits[i])
             st1 == Incr(st, k, Expiry(Limits[i]), t)
         IN  IF HitAllowed(st1, k, Limits[i])
             THEN EvaluateLimits(st1, id, t, i + 1)
             ELSE [storage |-> st1, failed |-> Limits[i]]

\* _check_request_limit() of the decorator's wrapper
CheckRequestLimit(st, id, t) == EvaluateLimits(st, id, t, 1)

\* Retry-After of a 429: the time until the failed limit's window resets
RetryAfterLimited(st, id, lim, t) == st[LimitKey(id, lim)].expiry - t

----------------------------------------------------------------------------
(* Inputs *)

RowA == [retail_branding |-> <<"A", "b">>, marketing_name |-> <<" ", "a", " ">>,
         device |-> <<"b">>, model |-> NA]
RowB == [retail_branding |-> <<"b", "a">>, marketing_name |-> <<"B">>,
         device |-> <<"a", "b">>, model |-> <<"a">>]
RowC == [retail_branding |-> <<"a">>, marketing_name |-> <<"a", "B">>,
         device |-> <<"A">>, model |-> <<" ">>]

File1 == <<RowA, RowB>>
File2 == <<RowB, RowC, RowA>>

\* the contents the CSV file takes while the service runs
ServiceFiles == {File1, File2}

\* all files of at most n rows drawn from the three rows
RECURSIVE FilesUpTo(_)
FilesUpTo(n) ==
    IF n = 0 THEN {<<>>}
    ELSE LET shorter == FilesUpTo(n - 1)
         IN  shorter \cup {Append(f, r) : f \in shorter, r \in {RowA, RowB, RowC}}

QueryFiles == FilesUpTo(MaxRows)

\* request metadata: X-Forwarded-For, X-Real-IP, CF-Connecting-IP, client.host
Headers(xff, real_ip, cf_ip, client) ==
    [xff |-> xff, real_ip |-> real_ip, cf_ip |-> cf_ip, client |-> client]

ClientOne == Headers(<<"1", ",", " ", "2">>, <<"2">>, None, <<"9">>)
ClientTwo == Headers(None, None, None, <<"2">>)

HeaderSets == {ClientOne, ClientTwo}

\* the requests of the identity specification: every combination of absent,
\* empty, blank, padded and multi-entry header values and peer addresses
IdentityHeaders ==
    {Headers(xff, real_ip, cf_ip, client) :
        xff \in {None, <<>>, <<"1", ",", " ", "2">>, <<" ", "1", " ">>,
                 <<" ", ",", "2">>, <<",">>},
        real_ip \in {None, <<>>, <<"3">>, <<" ">>},
        cf_ip \in {None, <<"4", " ">>},
        client \in {None, <<>>, <<"9">>}}

Identities == {_client_identifier(h) : h \in HeaderSets}

IdentityIds == {_client_identifier(h) : h \in IdentityHeaders}

Filter(brand, marketing_name, device, model) ==
    [marketing_name |-> marketing_name, device |-> device, model |-> model,
     brand |-> brand]

NoFilter == Filter(None, None, None, None)

ServiceFilters == {NoFilter, Filter(<<>>, None, None, <<>>), Filter(<<"a">>, None, None, None)}

QueryFilters ==
    {Filter(b, n, d, m) : b \in {None, <<>>, <<"a">>, <<"B">>, <<"a", "B">>},
                          n \in {None, <<"a">>},
                          d \in {None, <<"b">>},
                          m \in {None, <<" ">>}}

\* (limit, page) pairs of the service specification: valid ones and one of
\* each kind the boundary rejects
ServicePaging == {<<1, 1>>, <<1, 2>>, <<0, 1>>, <<1, 0>>, <<501, 1>>}

Request(h, flt, limit, page) == [flt |-> flt, limit |-> limit, page |-> page, headers |-> h]

NoRequest == Request(Headers(None, None, None, None), NoFilter, 0, 0)

DefaultEnv == [SIMULATE_COLD_START |-> None, COLD_START_DELAY_SECONDS |-> UnsetFloat]

\* no settings; warm-up of 0.5 s; warm-up of 2.5 s
EnvSettings ==
    { DefaultEnv,
      [SIMULATE_COLD_START |-> <<" ", "O", "n">>, COLD_START_DELAY_SECONDS |-> Num(1)],
      [SIMULATE_COLD_START |-> <<"1">>, COLD_START_DELAY_SECONDS |-> Num(5)] }

\* the settings of the settings specification: the mode unset, enabled
\* ("1", " On"), disabled ("no") and empty; the delay unset, unparsable,
\* -0.5 s, 0 s and 0.5 s
EnvMatrix ==
    {[SIMULATE_COLD_START |-> b, COLD_START_DELAY_SECONDS |-> d] :
        b \in {None, <<"1">>, <<" ", "O", "n">>, <<"n", "o">>, <<>>},
        d \in {UnsetFloat, BadFloat, Num(-1), Num(0), Num(1)}}

----------------------------------------------------------------------------
(* Responses *)

CACHE_CONTROL == "public, max-age=86400"
VARY == "Accept-Encoding"

\* endpoint, status, detail, Retry-After (-1: no header), the two cache
\* headers ("": no header), the payload, /health's status string, the request
\* answered, and whether handling it read the dataset
Resp(endpoint, status, detail, retry_after, cache_control, vary, body, health, req, loaded) ==
    [endpoint |-> endpoint, status |-> status, detail |-> detail,
     retry_after |-> retry_after, cache_control |-> cache_control, vary |-> vary,
     body |-> body, health |-> health, req |-> req, loaded |-> loaded]

NoResponse == Resp("none", 0, "", -1, "", "", NoBody, "", NoRequest, FALSE)

\* ErrorResp carrying the cache headers of a success
ErrorRespCached(status, detail, retry_after, req) ==
    Resp("check", status, detail, retry_after, CACHE_CONTROL, VARY, NoBody, "", req, FALSE)

\* an HTTPException or a limiter rejection: the response is built from the
\* exception, so headers set on the injected Response object are not in it
ErrorResp(status, detail, retry_after, req) ==
    Resp("check", status, detail, retry_after, "", "", NoBody, "", req, FALSE)

----------------------------------------------------------------------------
(* History *)

EmptyStorage == [k \in {} |-> [count |-> 0, expiry |-> 0]]

\* startupTable: the table the lifespan's load produced
\* log[id]:      the requests of id that reached the limiter: [t, failed]
\* shadow[i]:    the limiter storage of the run without the requests of i
\* shadowFailed[i]: the limiter's verdict on the last request in that run
\*                  ("absent" when the last request was i's own)
\* tasks:        the warm-up tasks created and not yet finished
\* warmSeen:     the tick of the first request that observed Warming (-1: none)
\* recording, first: when recording, one successful query of the run is kept
\*               with the file it was answered from and its number among the
\*               requests: <<[file, bom, req, body, n]>>
HistFor(ids) ==
    [startupTable |-> <<>>,
     log          |-> [id \in ids |-> <<>>],
     shadow       |-> [id \in ids |-> EmptyStorage],
     shadowFailed |-> [id \in ids |-> "absent"],
     tasks        |-> 0,
     warmSeen     |-> -1,
     recording    |-> FALSE,
     first        |-> <<>>]

InitHist == HistFor(Identities)

RECURSIVE SumLen(_, _)
SumLen(f, S) ==
    IF S = {} THEN 0
    ELSE LET x == CHOOSE y \in S : TRUE IN Len(f[x]) + SumLen(f, S \ {x})

Hits == SumLen(hist.log, DOMAIN hist.log)

----------------------------------------------------------------------------
(* The dataset refresh tool (scripts/refresh_dataset.py)                     *)

\* the content of a file that holds no bytes at all: no mark, no header
NoBytes == "no bytes"

\* an absent ETag header, an absent "etag" key of the metadata
NoEtag == "None"

\* the ETag values the remote may send
Etags == {NoEtag, "v1", "v2"}

\* an absent "sha256" key of the metadata
NoSha == <<>>

\* _compute_sha256(): a digest that is equal exactly for equal contents
_compute_sha256(data) == <<"sha256", data>>

\* the metadata file when it does not exist
NoMeta == <<>>

\* _load_metadata(): the metadata file when there is one, else the digest of
\* the CSV file when there is one, else the empty dict. meta is the metadata
\* file (<<>> or <<[etag, sha256]>>), csv the CSV file (<<>> or <<content>>).
_load_metadata(meta, csv) ==
    IF meta # NoMeta THEN meta[1]
    ELSE IF csv # <<>> THEN [etag |-> NoEtag, sha256 |-> _compute_sha256(csv[1])]
    ELSE [etag |-> NoEtag, sha256 |-> NoSha]

\* pc:       the statement refresh_dataset() is at
\* force:    its argument
\* meta:     the metadata file on disk
\* remote:   what the remote serves: [etag, data], data being <<rows, mark>>
\* metadata, etag, data: the locals of refresh_dataset()
\* old:      the CSV file on disk when the run started (read by the properties)
\* seen:     what the last reader of the CSV file read since the run started
RefreshState(pc, force, meta, remote, metadata, etag, data, old, seen) ==
    [pc |-> pc, force |-> force, meta |-> meta, remote |-> remote,
     metadata |-> metadata, etag |-> etag, data |-> data, old |-> old, seen |-> seen]

\* the tool is not run
NoRefresh ==
    RefreshState("idle", FALSE, NoMeta, [etag |-> NoEtag, data |-> <<>>],
                 [etag |-> NoEtag, sha256 |-> NoSha], NoEtag, <<>>, <<>>, <<>>)

----------------------------------------------------------------------------
(* Initial state: the module has been imported, the server has not started *)

Init ==
    /\ env \in EnvSettings
    /\ phase = "init"
    /\ file \in ServiceFiles \cup {Missing}
    /\ bom = "none"
    /\ _detect_encoding_cache = NoEncoding
    /\ _cold_start_pending = ColdStartPendingAtImport
    /\ _cold_start_lock = "None"
    /\ _cold_start_task = "None"
    /\ sleep_until = -1
    /\ now = 0
    /\ storage = EmptyStorage
    /\ response = NoResponse
    /\ refresh = NoRefresh
    /\ hist = InitHist

----------------------------------------------------------------------------
(* Actions *)

\* lifespan(): the startup load; a missing file aborts the start
Startup ==
    /\ phase = "init"
    /\ IF file = Missing
       THEN /\ phase' = "failed"
            /\ UNCHANGED <<hist, _detect_encoding_cache>>
       ELSE LET encoding == CachedEncoding(_detect_encoding_cache, bom)
            IN  /\ _detect_encoding_cache' = encoding
                /\ IF Decodable(bom, encoding)
                   THEN /\ phase' = "serving"
                        /\ hist' = [hist EXCEPT !.startupTable = _load_dataset(file)]
                   ELSE /\ phase' = "failed"
                        /\ hist' = hist
    /\ UNCHANGED <<refresh, env, file, bom, _cold_start_pending, _cold_start_lock,
                   _cold_start_task, sleep_until, now, storage, response>>

\* the refresh tool (or anyone) replaces the CSV file
ReplaceFile ==
    /\ file # Missing
    /\ \E f \in ServiceFiles \ {file} : file' = f
    /\ UNCHANGED <<refresh, env, phase, bom, _detect_encoding_cache, _cold_start_pending,
                   _cold_start_lock, _cold_start_task, sleep_until, now, storage,
                   response, hist>>

\* the files written to the CSV path in the loader specification: rows and
\* byte-order mark
DiskFiles == {<<File1, "none">>, <<File1, "fffe">>, <<File2, "efbbbf">>}

\* the CSV file is overwritten: other rows, another encoding, or both
RewriteFile ==
    /\ file # Missing
    /\ \E d \in DiskFiles \ {<<file, bom>>} : file' = d[1] /\ bom' = d[2]
    /\ UNCHANGED <<refresh, env, phase, _detect_encoding_cache, _cold_start_pending,
                   _cold_start_lock, _cold_start_task, sleep_until, now, storage,
                   response, hist>>

\* time passes, up to the tick last
Tick(last) ==
    /\ now < last
    /\ now' = now + 1
    /\ UNCHANGED <<refresh, env, phase, file, bom, _detect_encoding_cache,
                   _cold_start_pending, _cold_start_lock, _cold_start_task,
                   sleep_until, storage, response, hist>>

\* SleepTicks one tick short of the delay
SleepTicksShort == COLD_START_DELAY_SECONDS - 1

\* asyncio.sleep(COLD_START_DELAY_SECONDS): a tick of the clock is half a second
SleepTicks == COLD_START_DELAY_SECONDS

\* the event loop runs the created task up to its  await asyncio.sleep(...)
TaskStart ==
    /\ _cold_start_task = "scheduled"
    /\ _cold_start_task' = "sleeping"
    /\ sleep_until' = now + SleepTicks
    /\ UNCHANGED <<refresh, env, phase, file, bom, _detect_encoding_cache,
                   _cold_start_pending, _cold_start_lock, now, storage, response,
                   hist>>

\* _complete_cold_start() after the sleep: the flag is cleared, then finally
TimerFire ==
    /\ _cold_start_task = "sleeping"
    /\ now >= sleep_until
    /\ _cold_start_pending' = FALSE
    /\ _cold_start_task' = "None"
    /\ sleep_until' = -1
    /\ hist' = [hist EXCEPT !.tasks = @ - 1]
    /\ UNCHANGED <<refresh, env, phase, file, bom, _detect_encoding_cache, _cold_start_lock,
                   now, storage, response>>

\* the task is cancelled (the event loop that owns it shuts down). Cancelled
\* in its sleep, the finally clause clears the global; cancelled before its
\* first step, the coroutine body never runs and the global keeps the task.
CancelTask ==
    /\ _cold_start_task \in {"scheduled", "sleeping"}
    /\ _cold_start_task' = IF _cold_start_task = "sleeping" THEN "None" ELSE "cancelled"
    /\ sleep_until' = -1
    /\ hist' = [hist EXCEPT !.tasks = @ - 1]
    /\ UNCHANGED <<refresh, env, phase, file, bom, _detect_encoding_cache,
                   _cold_start_pending, _cold_start_lock, now, storage, response>>

\* ReadHealth behind the readiness gate
ReadHealthGated ==
    /\ phase = "serving"
    /\ response' = Resp("health", IF _cold_start_pending THEN 503 ELSE 200, "",
                        IF _cold_start_pending THEN RetryAfterWarming ELSE -1,
                        "", "", NoBody,
                        IF _cold_start_pending THEN "initializing" ELSE "ok",
                        NoRequest, FALSE)
    /\ UNCHANGED <<refresh, env, phase, file, bom, _detect_encoding_cache,
                   _cold_start_pending, _cold_start_lock, _cold_start_task,
                   sleep_until, now, storage, hist>>

\* ReadHealth awaiting _ensure_service_ready() first, its answer unchanged
ReadHealthEnsuringReady ==
    /\ phase = "serving"
    /\ response' = Resp("health", 200, "", -1, "", "", NoBody,
                        IF _cold_start_pending THEN "initializing" ELSE "ok",
                        NoRequest, FALSE)
    /\ _cold_start_lock' = IF _cold_start_pending THEN "unlocked" ELSE _cold_start_lock
    /\ _cold_start_task' = IF _cold_start_pending /\ _cold_start_task = "None"
                           THEN "scheduled" ELSE _cold_start_task
    /\ hist' = [hist EXCEPT !.tasks = IF _cold_start_pending /\ _cold_start_task = "None"
                                      THEN @ + 1 ELSE @]
    /\ UNCHANGED <<refresh, env, phase, file, bom, _detect_encoding_cache,
                   _cold_start_pending, sleep_until, now, storage>>

\* GET /health
ReadHealth ==
    /\ phase = "serving"
    /\ response' = Resp("health", 200, "", -1, "", "", NoBody,
                        IF _cold_start_pending THEN "initializing" ELSE "ok",
                        NoRequest, FALSE)
    /\ UNCHANGED <<refresh, env, phase, file, bom, _detect_encoding_cache,
                   _cold_start_pending, _cold_start_lock, _cold_start_task,
                   sleep_until, now, storage, hist>>

\* ValidQuery without the constraints of limit
ValidQueryPageOnly(req) == req.page >= 1

\* the Query(...) constraints of limit and page (main.py:345-355)
ValidQuery(req) == req.limit > 0 /\ req.limit <= 500 /\ req.page >= 1

\* AnyFilter testing for None only
AnyFilterNotNone(flt) == \E param \in FilterParams : flt[param] # None

\* any([brand, marketing_name, device, model])
AnyFilter(flt) == \E param \in FilterParams : Truthy(flt[param])

\* the history after a request of identity id got verdict lim from the limiter
Logged(id, lim) ==
    [hist EXCEPT
       !.log = [@ EXCEPT ![id] = Append(@, [t |-> now, failed |-> lim.failed])],
       !.shadow = [i \in DOMAIN hist.shadow |->
                     IF i = id THEN hist.shadow[i]
                     ELSE CheckRequestLimit(hist.shadow[i], id, now).storage],
       !.shadowFailed = [i \in DOMAIN hist.shadowFailed |->
                     IF i = id THEN "absent"
                     ELSE CheckRequestLimit(hist.shadow[i], id, now).failed]]

\* ServiceWarming read from the settings instead of the flag
ServiceWarmingFromSettings == ColdStartPendingAtImport

\* the test of _ensure_service_ready():  if not _cold_start_pending: return
ServiceWarming == _cold_start_pending

\* CreateTimer without the test for an active task
CreateTimerAlways == TRUE

\* main.py:239:  if _cold_start_task is None
CreateTimer == _cold_start_task = "None"

\* the body of check_device() once the limiter has admitted the request
Handler(req) ==
    IF ServiceWarming
    THEN \* _ensure_service_ready(): lock, timer, 503
         /\ _cold_start_lock' = "unlocked"
         /\ _cold_start_task' = IF CreateTimer THEN "scheduled" ELSE _cold_start_task
         /\ response' = ErrorResp(503, "Service is warming up. Please retry shortly.",
                                  RetryAfterWarming, req)
         /\ UNCHANGED _detect_encoding_cache
    ELSE /\ UNCHANGED <<_cold_start_lock, _cold_start_task>>
         /\ IF ~AnyFilter(req.flt)
            THEN /\ response' = ErrorResp(400, "At least one filter parameter (brand, marketing_name, device, model) is required.",
                                          -1, req)
                 /\ UNCHANGED _detect_encoding_cache
            ELSE LET r == _filter_devices(file, req.flt, req.limit, req.page)
                     encoding == CachedEncoding(_detect_encoding_cache, bom)
                 IN  IF r.status = 200 /\ ~Decodable(bom, encoding)
                     THEN \* the load raises: an unhandled exception, a 500
                          /\ _detect_encoding_cache' = encoding
                          /\ response' = Resp("check", 500, "Internal Server Error", -1,
                                              "", "", NoBody, "", req, TRUE)
                     ELSE /\ _detect_encoding_cache' =
                                IF r.status = 200 THEN encoding ELSE _detect_encoding_cache
                          /\ response' = Resp("check", r.status, r.detail, -1,
                                              IF r.status = 200 THEN CACHE_CONTROL ELSE "",
                                              IF r.status = 200 THEN VARY ELSE "",
                                              r.body, "", req, TRUE)

\* whether this request may be the one the history keeps
Keeps == IF hist.recording /\ hist.first = <<>> THEN BOOLEAN ELSE {FALSE}

\* the history h after the request req has been answered
Observed(h, admitted, req, keep) ==
    [h EXCEPT
       !.tasks = IF admitted /\ ServiceWarming /\ CreateTimer THEN @ + 1 ELSE @,
       !.warmSeen = IF admitted /\ ServiceWarming /\ @ = -1 THEN now ELSE @,
       !.first = IF keep /\ response'.status = 200
                 THEN <<[file |-> file, bom |-> bom, req |-> req,
                         body |-> response'.body, n |-> Hits + 1]>>
                 ELSE @]

\* GET /check: parameter validation, the limiter's wrapper, then the handler.
\* budget bounds the requests that reach the limiter in a run.
CheckDevice(req, budget) ==
    /\ phase = "serving"
    /\ IF ~ValidQuery(req)
       THEN /\ response' = ErrorResp(422, "validation error", -1, req)
            /\ UNCHANGED <<storage, hist, _cold_start_lock, _cold_start_task,
                           _detect_encoding_cache>>
       ELSE /\ Hits < budget
            /\ LET id  == _client_identifier(req.headers)
                   lim == CheckRequestLimit(storage, id, now)
               IN  /\ storage' = lim.storage
                   /\ IF lim.failed # "none"
                      THEN /\ response' = ErrorResp(429, "Rate limit exceeded",
                                    RetryAfterLimited(lim.storage, id, lim.failed, now), req)
                           /\ UNCHANGED <<_cold_start_lock, _cold_start_task,
                                          _detect_encoding_cache>>
                      ELSE Handler(req)
                   /\ \E keep \in Keeps :
                         hist' = Observed(Logged(id, lim), lim.failed = "none", req, keep)
    /\ UNCHANGED <<refresh, env, phase, file, bom, _cold_start_pending, sleep_until, now>>

Next ==
    \/ Startup
    \/ ReplaceFile
    \/ Tick(MaxServiceTime)
    \/ TaskStart
    \/ TimerFire
    \/ CancelTask
    \/ ReadHealth
    \/ \E flt \in ServiceFilters, lp \in ServicePaging :
          CheckDevice(Request(ClientOne, flt, lp[1], lp[2]), MaxServiceRequests)

Spec == Init /\ [][Next]_vars

----------------------------------------------------------------------------
(* The query engine on its own: every table of QueryFiles, every filter of   *)
(* QueryFilters, every limit and page up to MaxPage (0 included)             *)

InitQuery ==
    /\ env = DefaultEnv
    /\ phase = "serving"
    /\ file \in QueryFiles
    /\ bom = "none"
    /\ _detect_encoding_cache = _detect_encoding(bom)
    /\ _cold_start_pending = ColdStartPendingAtImport
    /\ _cold_start_lock = "None"
    /\ _cold_start_task = "None"
    /\ sleep_until = -1
    /\ now = 0
    /\ storage = EmptyStorage
    /\ response = NoResponse
    /\ refresh = NoRefresh
    /\ hist = [InitHist EXCEPT !.startupTable = _load_dataset(file)]

\* one call of _filter_devices(), the first of the run
QueryEngine(flt, limit, page) ==
    /\ response = NoResponse
    /\ LET r == _filter_devices(file, flt, limit, page)
       IN  response' = Resp("check", r.status, r.detail, -1, "", "", r.body, "",
                            Request(Headers(None, None, None, None), flt, limit, page),
                            r.status = 200)
    /\ UNCHANGED <<refresh, env, phase, file, bom, _detect_encoding_cache,
                   _cold_start_pending, _cold_start_lock, _cold_start_task,
                   sleep_until, now, storage, hist>>

NextQuery ==
    \E flt \in QueryFilters, limit \in 0..MaxPage, page \in 0..MaxPage :
        QueryEngine(flt, limit, page)

SpecQuery == InitQuery /\ [][NextQuery]_vars

----------------------------------------------------------------------------
(* The limiter under load: two clients, one valid query, default settings *)

InitLimit ==
    /\ Init
    /\ env = DefaultEnv
    /\ file = File1

NextLimit ==
    \/ Startup
    \/ Tick(MaxTime)
    \/ \E h \in HeaderSets :
          CheckDevice(Request(h, Filter(<<"a">>, None, None, None), 1, 1), MaxRequests)

SpecLimit == InitLimit /\ [][NextLimit]_vars

----------------------------------------------------------------------------
(* The loader while the file changes: the file is overwritten, in the same   *)
(* or another encoding, while two clients page through a query               *)

InitLoad ==
    /\ env = DefaultEnv
    /\ phase = "init"
    /\ \E d \in DiskFiles : file = d[1] /\ bom = d[2]
    /\ _detect_encoding_cache = NoEncoding
    /\ _cold_start_pending = ColdStartPendingAtImport
    /\ _cold_start_lock = "None"
    /\ _cold_start_task = "None"
    /\ sleep_until = -1
    /\ now = 0
    /\ storage = EmptyStorage
    /\ response = NoResponse
    /\ refresh = NoRefresh
    /\ hist = [InitHist EXCEPT !.recording = TRUE]

NextLoad ==
    \/ Startup
    \/ RewriteFile
    \/ \E h \in HeaderSets, page \in 1..2 :
          CheckDevice(Request(h, Filter(<<"a">>, None, None, None), 1, page),
                      MaxLoadRequests)

SpecLoad == InitLoad /\ [][NextLoad]_vars

----------------------------------------------------------------------------
(* The warm-up under fair scheduling: warm-up is enabled, the event loop     *)
(* runs the timer task, time passes, and the task is never cancelled         *)

InitLive ==
    /\ Init
    /\ file = File1
    /\ ColdStartPendingAtImport

\* the clock runs on while a timer sleeps, so that every sleep can end
LiveHorizon ==
    IF _cold_start_task = "sleeping" THEN Max(MaxLiveTime, sleep_until) ELSE MaxLiveTime

NextLive ==
    \/ Startup
    \/ Tick(LiveHorizon)
    \/ TaskStart
    \/ TimerFire
    \/ ReadHealth
    \/ \E flt \in {NoFilter, Filter(<<"a">>, None, None, None)} :
          CheckDevice(Request(ClientOne, flt, 1, 1), MaxLiveRequests)

SpecLive ==
    /\ InitLive
    /\ [][NextLive]_vars
    /\ WF_vars(Tick(LiveHorizon))
    /\ WF_vars(TaskStart)
    /\ WF_vars(TimerFire)

----------------------------------------------------------------------------
(* The service under every combination of the two cold-start settings *)

InitEnv ==
    /\ env \in EnvMatrix
    /\ phase = "init"
    /\ file = File1
    /\ bom = "none"
    /\ _detect_encoding_cache = NoEncoding
    /\ _cold_start_pending = ColdStartPendingAtImport
    /\ _cold_start_lock = "None"
    /\ _cold_start_task = "None"
    /\ sleep_until = -1
    /\ now = 0
    /\ storage = EmptyStorage
    /\ response = NoResponse
    /\ refresh = NoRefresh
    /\ hist = InitHist

NextEnv ==
    \/ Startup
    \/ Tick(MaxEnvTime)
    \/ TaskStart
    \/ TimerFire
    \/ CancelTask
    \/ ReadHealth
    \/ \E flt \in {NoFilter, Filter(<<"a">>, None, None, None)} :
          CheckDevice(Request(ClientOne, flt, 1, 1), MaxEnvRequests)

SpecEnv == InitEnv /\ [][NextEnv]_vars

----------------------------------------------------------------------------
(* Identity resolution: one client, any of the header combinations *)

InitIdentity ==
    /\ env = DefaultEnv
    /\ phase = "init"
    /\ file = File1
    /\ bom = "none"
    /\ _detect_encoding_cache = NoEncoding
    /\ _cold_start_pending = ColdStartPendingAtImport
    /\ _cold_start_lock = "None"
    /\ _cold_start_task = "None"
    /\ sleep_until = -1
    /\ now = 0
    /\ storage = EmptyStorage
    /\ response = NoResponse
    /\ refresh = NoRefresh
    /\ hist = HistFor(IdentityIds)

NextIdentity ==
    \/ Startup
    \/ \E h \in IdentityHeaders :
          CheckDevice(Request(h, Filter(<<"a">>, None, None, None), 1, 1),
                      MaxIdentityRequests)

SpecIdentity == InitIdentity /\ [][NextIdentity]_vars

----------------------------------------------------------------------------
(* The refresh tool on its own, with a reader of the CSV file: the file on   *)
(* disk holds one of RefreshContents, the remote serves one of them under    *)
(* any ETag, the metadata file is absent or records the file on disk         *)

\* the CSV file on disk: its rows and its mark
Disk == <<file, bom>>

\* the contents of the CSV file and of the remote
RefreshContents == {<<File1, "none">>, <<File2, "none">>}

InitRefresh ==
    /\ env = DefaultEnv
    /\ phase = "init"
    /\ \E c \in RefreshContents : file = c[1] /\ bom = c[2]
    /\ _detect_encoding_cache = NoEncoding
    /\ _cold_start_pending = ColdStartPendingAtImport
    /\ _cold_start_lock = "None"
    /\ _cold_start_task = "None"
    /\ sleep_until = -1
    /\ now = 0
    /\ storage = EmptyStorage
    /\ response = NoResponse
    /\ \E e \in Etags, d \in RefreshContents, m \in {"absent", NoEtag, "v1"} :
          refresh = [NoRefresh EXCEPT
                       !.remote = [etag |-> e, data |-> d],
                       !.meta = IF m = "absent" THEN NoMeta
                                ELSE <<[etag |-> m, sha256 |-> _compute_sha256(Disk)]>>]
    /\ hist = InitHist

\* what every step of the tool leaves alone
ServiceUnchanged ==
    UNCHANGED <<env, phase, _detect_encoding_cache, _cold_start_pending,
                _cold_start_lock, _cold_start_task, sleep_until, now, storage,
                response, hist>>

\* refresh_dataset(force) is called: line 37, metadata = _load_metadata()
RefreshStart(force) ==
    /\ refresh.pc = "idle"
    /\ refresh' = [refresh EXCEPT !.pc = "head", !.force = force,
                      !.metadata = _load_metadata(refresh.meta, <<Disk>>),
                      !.etag = NoEtag, !.data = <<>>,
                      !.old = Disk, !.seen = <<>>]
    /\ UNCHANGED <<file, bom>>
    /\ ServiceUnchanged

\* lines 40-47: the HEAD request; an ETag equal to the recorded one ends an
\* unforced run
HeadRequest ==
    /\ refresh.pc = "head"
    /\ LET etag == refresh.remote.etag
       IN  refresh' = [refresh EXCEPT
                         !.etag = etag,
                         !.pc = IF etag # NoEtag /\ refresh.metadata.etag = etag
                                   /\ ~refresh.force
                                THEN "done" ELSE "get"]
    /\ UNCHANGED <<file, bom>>
    /\ ServiceUnchanged

\* lines 49-55: the GET request and the comparison of the digests
GetRequest ==
    /\ refresh.pc = "get"
    /\ LET data == refresh.remote.data
       IN  refresh' = [refresh EXCEPT
                         !.data = data,
                         !.pc = IF refresh.metadata.sha256 = _compute_sha256(data)
                                   /\ ~refresh.force
                                THEN "touch" ELSE "open"]
    /\ UNCHANGED <<file, bom>>
    /\ ServiceUnchanged

\* _save_metadata(): the metadata file holds the ETag and the digest of the run
SavedMeta == <<[etag |-> refresh.etag, sha256 |-> _compute_sha256(refresh.data)]>>

\* lines 57-64: same digest, only the metadata file is rewritten
SaveSameMetadata ==
    /\ refresh.pc = "touch"
    /\ refresh' = [refresh EXCEPT !.meta = SavedMeta, !.pc = "done"]
    /\ UNCHANGED <<file, bom>>
    /\ ServiceUnchanged

\* line 66, CSV_PATH.write_bytes(data), first half: open(mode="wb") truncates
\* the file in place
OpenForWrite ==
    /\ refresh.pc = "open"
    /\ file' = <<>>
    /\ bom' = NoBytes
    /\ refresh' = [refresh EXCEPT !.pc = "write"]
    /\ ServiceUnchanged

\* line 66, second half: the bytes reach the file in order, the mark and the
\* header first, then row after row
WriteChunk ==
    /\ refresh.pc = "write"
    /\ Disk # refresh.data
    /\ IF bom = NoBytes
       THEN file' = <<>> /\ bom' = refresh.data[2]
       ELSE file' = Append(file, refresh.data[1][Len(file) + 1]) /\ bom' = bom
    /\ UNCHANGED refresh
    /\ ServiceUnchanged

\* line 66, the end of write_bytes(): all bytes written, the file is closed
CloseFile ==
    /\ refresh.pc = "write"
    /\ Disk = refresh.data
    /\ refresh' = [refresh EXCEPT !.pc = "save"]
    /\ UNCHANGED <<file, bom>>
    /\ ServiceUnchanged

\* lines 68-79: the metadata of the new file is saved
SaveMetadata ==
    /\ refresh.pc = "save"
    /\ refresh' = [refresh EXCEPT !.meta = SavedMeta, !.pc = "done"]
    /\ UNCHANGED <<file, bom>>
    /\ ServiceUnchanged

\* the run ends between two of its steps: the process is killed, a request
\* raises (raise_for_status, a timeout), the disk is full
Crash ==
    /\ refresh.pc \in {"head", "get", "touch", "open", "write", "save"}
    /\ refresh' = [refresh EXCEPT !.pc = "crashed"]
    /\ UNCHANGED <<file, bom>>
    /\ ServiceUnchanged

\* a reader opens the CSV file and reads it (the service's pd.read_csv of
\* _load_dataset, at startup and for every query): it gets the bytes on disk
ReadSource ==
    /\ refresh.pc # "idle"
    /\ refresh' = [refresh EXCEPT !.seen = <<Disk>>]
    /\ UNCHANGED <<file, bom>>
    /\ ServiceUnchanged

NextRefresh ==
    \/ \E force \in BOOLEAN : RefreshStart(force)
    \/ HeadRequest
    \/ GetRequest
    \/ SaveSameMetadata
    \/ OpenForWrite
    \/ WriteChunk
    \/ CloseFile
    \/ SaveMetadata
    \/ Crash
    \/ ReadSource

SpecRefresh == InitRefresh /\ [][NextRefresh]_vars

----------------------------------------------------------------------------
(* Properties *)

\* the request the last response answers
LastReq == response.req

\* C1: the dataset is loaded once, at startup: every successful query result
\* is the query evaluated on the table of the startup load, also after the
\* source file was replaced.
C1_LoadedOncePerProcess ==
    (response.endpoint = "check" /\ response.status = 200) =>
        response.body = QueryTable(hist.startupTable, LastReq.flt, LastReq.limit,
                                   LastReq.page)

\* the entries of a log with verdict "none" and from < t <= to
RECURSIVE AdmittedIn(_, _, _)
AdmittedIn(log, from, to) ==
    IF log = <<>> THEN 0
    ELSE (IF Head(log).failed = "none" /\ Head(log).t > from /\ Head(log).t <= to
          THEN 1 ELSE 0) + AdmittedIn(Tail(log), from, to)

\* C2: for every identity and every moment, the requests admitted by the
\* limiter in the trailing long window are at most the long cap and those in
\* the trailing short window at most the short cap; a rejection is a 429
\* with a Retry-After hint.
C2_SlidingWindowCaps ==
    /\ \A id \in Identities :
          /\ AdmittedIn(hist.log[id], now - LongWindow, now) <= LongCap
          /\ AdmittedIn(hist.log[id], now - ShortWindow, now) <= ShortCap
    /\ response.status = 429 => response.retry_after > 0

\* the identity of the client the last response answers
LastId == _client_identifier(LastReq.headers)

\* the limiter's verdict on the last request of a log ("absent": empty log)
LastVerdict(log) == IF log = <<>> THEN "absent" ELSE log[Len(log)].failed

\* the entries of id's log that limit lim counted in its window now open
RECURSIVE CountedSince(_, _, _)
CountedSince(log, lim, start) ==
    IF log = <<>> THEN <<>>
    ELSE IF Head(log).t >= start /\ (lim = "short" => Head(log).failed # "long")
         THEN <<Head(log)>> \o CountedSince(Tail(log), lim, start)
         ELSE CountedSince(Tail(log), lim, start)

InWindow(id, lim) ==
    LET k == <<id, lim>>
    IN  IF k \in DOMAIN storage /\ storage[k].expiry > now
        THEN CountedSince(hist.log[id], lim,
                          storage[k].expiry - (IF lim = "long" THEN LongWindow ELSE ShortWindow))
        ELSE <<>>

\* the storage entries of the identities other than i
OthersOf(st, i) == {<<k, st[k]>> : k \in {x \in DOMAIN st : x[1] # i}}

\* C3: budgets are per identity. Inside an identity's open window of a limit
\* with cap K, exactly the requests after the K-th are rejected by that limit;
\* and for every identity i, the limiter's state for the other identities and
\* its verdict on the last request of another identity are those of the run
\* in which the requests of i were never made.
C3_PerIdentityBudget ==
    /\ \A id \in Identities :
          /\ \A n \in 1..Len(InWindow(id, "long")) :
                (n > LongCap) <=> (InWindow(id, "long")[n].failed = "long")
          /\ \A n \in 1..Len(InWindow(id, "short")) :
                (n > ShortCap) <=> (InWindow(id, "short")[n].failed = "short")
    /\ \A i \in Identities :
          /\ OthersOf(storage, i) = OthersOf(hist.shadow[i], i)
          /\ \A k \in DOMAIN hist.shadow[i] : k[1] # i
          /\ (response.endpoint = "check" /\ LastId # i) =>
                hist.shadowFailed[i] = LastVerdict(hist.log[LastId])

\* C3 witness: identity 1 has just been rejected as the request after its
\* K-th, while identity 2, inside the same window, is still admitted.
C3_Witness ==
    /\ LastVerdict(hist.log[<<"1">>]) = "short"
    /\ Len(InWindow(<<"1">>, "short")) = ShortCap + 1
    /\ LastVerdict(hist.log[<<"2">>]) = "none"
    /\ LastId = <<"2">>
    /\ response.status = 200

\* a step in which a /check request got through the limiter to the handler
ReachedHandler ==
    /\ Hits' = Hits + 1
    /\ response'.endpoint = "check"
    /\ LastVerdict(hist'.log[_client_identifier(response'.req.headers)]) = "none"

\* C4: while Warming, every /check request that reaches the readiness gate,
\* whatever its filter, page and limit, is answered 503 with Retry-After =
\* max(1, floor(delay in seconds)) and no query result.
C4_WarmingRejects ==
    [][(ReachedHandler /\ _cold_start_pending) =>
          /\ response'.status = 503
          /\ response'.retry_after =
                (IF env.COLD_START_DELAY_SECONDS.halves \div 2 >= 1
                 THEN env.COLD_START_DELAY_SECONDS.halves \div 2 ELSE 1)
          /\ response'.body = NoBody
          /\ ~response'.loaded
          /\ response'.cache_control = ""]_vars

\* C4 witness: a request without any filter was answered 503 with
\* Retry-After 2 under a delay of 2.5 s.
C4_Witness ==
    /\ response.status = 503
    /\ response.retry_after = 2
    /\ env.COLD_START_DELAY_SECONDS = Num(5)
    /\ LastReq.flt = NoFilter
    /\ _cold_start_pending

\* C5: once Ready, always Ready, and once Ready no /check request is
\* answered with the warm-up 503.
C5_ReadinessMonotone ==
    [][~_cold_start_pending =>
          /\ ~_cold_start_pending'
          /\ (Hits' = Hits + 1 => response'.status # 503)]_vars

\* C5 witness: the service started Warming, the timer fired, and a later
\* /check request was answered 200.
C5_Witness ==
    /\ ColdStartPendingAtImport
    /\ ~_cold_start_pending
    /\ response.status = 200

\* C6 as stated: /health always answers 200, ungated, with the status string
\* "warming" while Warming and "ready" once Ready.
C6_HealthWarmingReady ==
    response.endpoint = "health" =>
        /\ response.status = 200
        /\ response.health \in {"warming", "ready"}

\* C6 amended: every answer of /health, whatever the readiness state and the
\* limiter's counters, is a 200 without Retry-After (neither gate rejects
\* it), and its status string is "initializing" while Warming and "ok" once
\* Ready.
C6_HealthInitializingOk ==
    [][(response'.endpoint = "health" /\ response' # response) =>
          /\ response'.status = 200
          /\ response'.retry_after = -1
          /\ _cold_start_pending => response'.health = "initializing"
          /\ ~_cold_start_pending => response'.health = "ok"
          /\ UNCHANGED <<storage, _cold_start_pending, _cold_start_task>>]_vars

\* C6 witness: /health answered "initializing" while the warm-up timer
\* sleeps and the client's short budget is used up.
C6_Witness ==
    /\ response.endpoint = "health"
    /\ response.health = "initializing"
    /\ _cold_start_task = "sleeping"
    /\ \E k \in DOMAIN storage : storage[k].count > ShortCap /\ storage[k].expiry > now

\* C7: a /check request that passed both gates and whose four filter fields
\* are all absent or empty is answered 400 naming the missing filter, and
\* the dataset is not loaded for it.
C7_NoFilterRejected ==
    [][(/\ ReachedHandler
        /\ ~_cold_start_pending
        /\ \A param \in FilterParams : response'.req.flt[param] \in {None, <<>>}) =>
          /\ response'.status = 400
          /\ response'.detail =
               "At least one filter parameter (brand, marketing_name, device, model) is required."
          /\ ~response'.loaded
          /\ response'.body = NoBody]_vars

\* C7 witness: a request whose brand and model are empty strings and whose
\* other filters are absent was answered 400 by a Ready service.
C7_Witness ==
    /\ response.status = 400
    /\ LastReq.flt = Filter(<<>>, None, None, <<>>)
    /\ ~response.loaded
    /\ ~_cold_start_pending

\* the payload of a successful query
Ok200 == response.endpoint = "check" /\ response.status = 200

\* C8: for a valid query, total_pages is 0 iff total_matches is 0 and is
\* otherwise the ceiling of total_matches / limit; neither total depends on
\* the page.
C8_TotalPages ==
    Ok200 =>
        LET b == response.body
            L == LastReq.limit
        IN  /\ (b.total_pages = 0) <=> (b.total_matches = 0)
            /\ b.total_matches > 0 =>
                  /\ b.total_pages * L >= b.total_matches
                  /\ (b.total_pages - 1) * L < b.total_matches
            /\ \A p \in 1..(MaxPage + 1) :
                  LET r == _filter_devices(file, LastReq.flt, L, p)
                  IN  /\ r.status = 200
                      /\ r.body.total_matches = b.total_matches
                      /\ r.body.total_pages = b.total_pages

\* C8 witness: a last page that is only partly filled (3 matches, limit 2).
C8_Witness ==
    /\ Ok200
    /\ response.body.total_matches = 3
    /\ LastReq.limit = 2
    /\ response.body.total_pages = 2

\* case-insensitive substring test, written out on positions
MatchesField(cell, pat) ==
    \E i \in 0..(Len(cell) - Len(pat)) :
        \A j \in 1..Len(pat) : LowerChar(cell[i + j]) = LowerChar(pat[j])

\* a record satisfies a filter: every field with a non-empty pattern
\* contains it
MatchesFilter(row, flt) ==
    /\ flt.brand \notin {None, <<>>} => MatchesField(row.retail_branding, flt.brand)
    /\ flt.marketing_name \notin {None, <<>>} =>
          MatchesField(row.marketing_name, flt.marketing_name)
    /\ flt.device \notin {None, <<>>} => MatchesField(row.device, flt.device)
    /\ flt.model \notin {None, <<>>} => MatchesField(row.model, flt.model)

\* the positions of the table's matching records, in increasing order
MatchingRows(df, flt) == {i \in 1..Len(df) : MatchesFilter(df[i], flt)}

\* the n-th smallest element of a set of numbers
RECURSIVE Nth(_, _)
Nth(S, n) ==
    LET m == CHOOSE x \in S : \A y \in S : x <= y
    IN  IF n = 1 THEN m ELSE Nth(S \ {m}, n - 1)

\* pages 1..n of a query, concatenated
RECURSIVE ConcatPages(_, _, _, _)
ConcatPages(f, flt, limit, n) ==
    IF n = 0 THEN <<>>
    ELSE ConcatPages(f, flt, limit, n - 1) \o _filter_devices(f, flt, limit, n).body.results

\* C9: with offset = (page-1)*limit, a page at or beyond the end is a 200
\* with no records that echoes the page; otherwise the records are the
\* matching records at positions offset .. min(offset+limit, total)-1 in
\* source order, and pages 1..total_pages together are all the matching
\* records, each once, in source order.
C9_PageSlice ==
    Ok200 =>
        LET b      == response.body
            df     == _load_dataset(file)
            M      == MatchingRows(df, LastReq.flt)
            total  == Cardinality(M)
            offset == (LastReq.page - 1) * LastReq.limit
            last   == IF offset + LastReq.limit < total THEN offset + LastReq.limit
                      ELSE total
        IN  /\ b.page = LastReq.page
            /\ b.limit = LastReq.limit
            /\ offset >= total => b.results = <<>>
            /\ offset < total =>
                  b.results = [n \in 1..(last - offset) |-> df[Nth(M, offset + n)]]
            /\ ConcatPages(file, LastReq.flt, LastReq.limit, b.total_pages)
                  = [n \in 1..total |-> df[Nth(M, n)]]

\* C9 witness: the second page of three matches with limit 2 holds the third
\* match only.
C9_Witness ==
    /\ Ok200
    /\ response.body.total_matches = 3
    /\ LastReq.limit = 2
    /\ LastReq.page = 2
    /\ Len(response.body.results) = 1

\* C9 second witness state: a page beyond the last one is an empty success
C9_BeyondWitness ==
    /\ Ok200
    /\ response.body.total_matches = 1
    /\ LastReq.page = 3
    /\ response.body.results = <<>>

\* C10: a record is counted, and returned when the page covers it, iff every
\* field with a non-empty pattern contains the pattern as a case-insensitive
\* substring; fields without a pattern do not constrain, given fields are
\* combined by AND.
C10_FilterSemantics ==
    Ok200 =>
        LET df == _load_dataset(file)
            M  == MatchingRows(df, LastReq.flt)
        IN  /\ response.body.total_matches = Cardinality(M)
            /\ \A n \in 1..Len(response.body.results) :
                  MatchesFilter(response.body.results[n], LastReq.flt)
            /\ _filter_devices(file, LastReq.flt, Len(df) + 1, 1).body.results
                  = [n \in 1..Cardinality(M) |-> df[Nth(M, n)]]

\* C10 witness: two patterns given, one in another case than the data; a
\* record matching only one of them is left out and one matching both is in.
C10_Witness ==
    /\ Ok200
    /\ LastReq.flt = Filter(<<"a">>, None, <<"b">>, None)
    /\ file = <<RowC, RowA, RowB>>
    /\ response.body.total_matches = 2
    /\ LastReq.limit = 3 /\ LastReq.page = 1

\* C11: a /check response carries Cache-Control: public, max-age=86400 and
\* Vary: Accept-Encoding iff it is a 200; the error responses 400, 422, 429
\* and 503 carry neither.
C11_CacheHeadersOnSuccessOnly ==
    response.endpoint = "check" =>
        /\ response.status = 200 =>
              /\ response.cache_control = "public, max-age=86400"
              /\ response.vary = "Accept-Encoding"
        /\ response.status \in {400, 422, 429, 503} =>
              /\ response.cache_control = ""
              /\ response.vary = ""

\* C11 witness: a 200 with both headers, answered by a service that earlier
\* in the run rejected a request with the warm-up 503.
C11_Witness ==
    /\ Ok200
    /\ response.cache_control = "public, max-age=86400"
    /\ response.vary = "Accept-Encoding"
    /\ hist.warmSeen >= 0

\* a header or peer address, trimmed; an absent one counts as empty
Present(v) == IF v = None THEN <<>> ELSE Strip(v)

\* the first non-empty element of a sequence of candidates, the last one
\* being the fallback
RECURSIVE FirstPresent(_)
FirstPresent(cands) ==
    IF Len(cands) = 1 \/ Head(cands) # <<>> THEN Head(cands)
    ELSE FirstPresent(Tail(cands))

\* the identity as the resolution order states it: the trimmed first
\* comma-separated entry of X-Forwarded-For, X-Real-IP, CF-Connecting-IP, the
\* peer address, the literal fallback (every value read trimmed)
ResolutionOrder(h) ==
    FirstPresent(<< IF h.xff = None THEN <<>> ELSE Strip(Head(SplitComma(h.xff, <<>>))),
                    Present(h.real_ip), Present(h.cf_ip), Present(h.client),
                    <<"unknown">> >>)

\* C12: the rate-limit key of an admitted /check request is the identity the
\* resolution order gives: the counters the limiter holds after the request
\* are those of the first non-empty of the trimmed first X-Forwarded-For
\* entry, X-Real-IP, CF-Connecting-IP, the peer address and "unknown".
C12_IdentityResolutionOrder ==
    (response.endpoint = "check" /\ response.status = 200 /\ Hits = 1) =>
        DOMAIN storage = {<<ResolutionOrder(LastReq.headers), lim>> : lim \in {"long", "short"}}

\* a request the boundary must refuse: page below 1 or limit outside 1..500
OutOfRange(req) == req.page < 1 \/ req.limit < 1 \/ req.limit > 500

\* C13: a /check request with page < 1 or limit outside 1..500 is answered
\* 422 without a payload, and handling it touches neither the warm-up lock
\* and timer nor the dataset and its encoding cache; no response of /check is
\* one of the query engine's own 400s for limit <= 0 or page <= 0.
C13_BoundaryRejects ==
    [][response'.endpoint = "check" =>
          /\ OutOfRange(response'.req) =>
                /\ response'.status = 422
                /\ ~response'.loaded
                /\ response'.body = NoBody
          /\ (OutOfRange(response'.req) /\ response' # response) =>
                /\ UNCHANGED <<_cold_start_lock, _cold_start_task, sleep_until,
                               _detect_encoding_cache, file>>
                /\ hist'.tasks = hist.tasks
                /\ hist'.warmSeen = hist.warmSeen
          /\ response'.status = 400 =>
                response'.detail \notin {"limit must be a positive integer",
                                         "page must be a positive integer"}]_vars

\* C13 witness: a request with limit 0 was answered 422 by a Warming service
\* whose warm-up lock and timer have not been created.
C13_Witness ==
    /\ response.status = 422
    /\ LastReq.limit = 0
    /\ _cold_start_pending
    /\ _cold_start_lock = "None"
    /\ _cold_start_task = "None"

\* the same query: filter, limit and page
SameQuery(r1, r2) == r1.flt = r2.flt /\ r1.limit = r2.limit /\ r1.page = r2.page

\* C14: a query never changes the source file, and a query that reaches the
\* engine and repeats a query answered earlier in the run from the same file,
\* whatever was asked and whatever happened in between, is answered 200 with
\* the identical payload.
C14_QueryPure ==
    [][ReachedHandler =>
          /\ file' = file
          /\ bom' = bom
          /\ \A k \in 1..Len(hist.first) :
                (/\ SameQuery(hist.first[k].req, response'.req)
                 /\ hist.first[k].file = file
                 /\ hist.first[k].bom = bom) =>
                    /\ response'.status = 200
                    /\ response'.body = hist.first[k].body]_vars

\* C14 witness: the first request of the run was answered with a non-empty
\* page; the third one repeats it against the same file and gets the same
\* payload.
C14_Witness ==
    /\ Ok200
    /\ Hits = 3
    /\ hist.first # <<>>
    /\ hist.first[1].n = 1
    /\ SameQuery(hist.first[1].req, LastReq)
    /\ hist.first[1].file = file
    /\ hist.first[1].bom = bom
    /\ response.body = hist.first[1].body
    /\ response.body.results # <<>>

\* a step in which the dataset is loaded: the startup load, or a request that
\* reached the query engine
LoadStep ==
    \/ phase = "init" /\ phase' # "init" /\ file # Missing
    \/ Hits' = Hits + 1 /\ response'.loaded

\* C20: every load decodes the file with the encoding its byte-order mark
\* names at that load: UTF-16 for ff fe and fe ff, UTF-8 with signature for
\* ef bb bf, UTF-8 otherwise, also after the file was overwritten with
\* another mark.
C20_EncodingFollowsBom ==
    [][LoadStep =>
          _detect_encoding_cache' =
              (CASE bom \in {"fffe", "feff"} -> "utf-16"
                 [] bom = "efbbbf" -> "utf-8-sig"
                 [] OTHER -> "utf-8")]_vars

\* C15: at most one warm-up timer task exists at any time, and a /check
\* request that observes Warming while a timer task is held creates none.
C15_SingleTimer ==
    [][/\ hist.tasks <= 1
       /\ hist'.tasks <= 1
       /\ (ReachedHandler /\ _cold_start_pending /\ _cold_start_task # "None") =>
             /\ hist'.tasks = hist.tasks
             /\ _cold_start_task' = _cold_start_task
             /\ sleep_until' = sleep_until]_vars

\* C15 witness: a request observed Warming at a later tick than the request
\* that created the timer, while the timer sleeps; there is one task.
C15_Witness ==
    /\ response.status = 503
    /\ hist.warmSeen >= 0
    /\ hist.warmSeen < now
    /\ LastVerdict(hist.log[LastId]) = "none"
    /\ hist.log[LastId][Len(hist.log[LastId])].t = now
    /\ _cold_start_task = "sleeping"
    /\ hist.tasks = 1

\* C16: with warm-up enabled, under fair scheduling and without cancellation:
\* once a /check request has observed Warming the state eventually becomes
\* Ready; it becomes Ready no earlier than the configured delay after the
\* first such request, never goes back, and from then on no /check request
\* is answered with the warm-up 503.
C16_WarmupCompletes ==
    /\ (hist.warmSeen >= 0) ~> (~_cold_start_pending)
    /\ [][/\ (_cold_start_pending /\ ~_cold_start_pending') =>
                /\ hist.warmSeen >= 0
                /\ now >= hist.warmSeen + env.COLD_START_DELAY_SECONDS.halves
          /\ ~_cold_start_pending =>
                /\ ~_cold_start_pending'
                /\ (ReachedHandler => response'.status # 503)]_vars

\* C16 witness: under a delay of 2.5 s (5 ticks) a request observed Warming,
\* the state became Ready 5 ticks or more later, and a /check request made
\* after that was answered 200.
C16_Witness ==
    /\ env.COLD_START_DELAY_SECONDS = Num(5)
    /\ hist.warmSeen >= 0
    /\ ~_cold_start_pending
    /\ now >= hist.warmSeen + 5
    /\ Ok200

\* a step that handles a /check request
CheckStep == Hits' = Hits + 1 \/ (response' # response /\ response'.endpoint = "check")

\* C17: the readiness gate comes before the rate-limit gate: a /check request
\* with valid page and limit that arrives while Warming is answered with the
\* warm-up 503 and leaves the limiter's counters as they were.
C17_ReadinessBeforeRateLimit ==
    [][(CheckStep /\ ~OutOfRange(response'.req) /\ _cold_start_pending) =>
          /\ response'.status = 503
          /\ storage' = storage]_vars

\* the count a limiter key holds at tick t (0 when its window is not open)
LiveCount(st, k, t) == IF k \in DOMAIN st /\ st[k].expiry > t THEN st[k].count ELSE 0

\* C18: a /check request that ends in 400, 422, 429 or 503 leaves the
\* limiter's counters and the source file unchanged, and a request answered
\* 200 adds exactly one to its identity's count in each of the two windows.
C18_ErrorsConsumeNoBudget ==
    [][CheckStep =>
          /\ file' = file
          /\ response'.status \in {400, 422, 429, 503} => storage' = storage
          /\ response'.status = 200 =>
                \A lim \in {"long", "short"} :
                    LET k == <<_client_identifier(response'.req.headers), lim>>
                    IN  LiveCount(storage', k, now) = LiveCount(storage, k, now) + 1]_vars

\* warm-up is configured: the mode is set to an enabling word and the delay
\* is a number above 0
WarmupConfigured ==
    /\ env.SIMULATE_COLD_START \in {<<"1">>, <<" ", "O", "n">>}
    /\ env.COLD_START_DELAY_SECONDS.kind = "num"
    /\ env.COLD_START_DELAY_SECONDS.halves > 0

\* C19: before the server starts the state is Warming iff the mode is enabled
\* and the delay is a number above 0 (an unset, unparsable, negative or zero
\* delay does not count); under every other setting the state is Ready in
\* every state of the run, no warm-up lock or timer is ever created and no
\* response is the warm-up 503.
C19_InitialReadiness ==
    /\ phase = "init" => (_cold_start_pending <=> WarmupConfigured)
    /\ ~WarmupConfigured =>
          /\ ~_cold_start_pending
          /\ _cold_start_lock = "None"
          /\ _cold_start_task = "None"
          /\ hist.tasks = 0
          /\ hist.warmSeen = -1
          /\ response.status # 503

\* C19 witness: the mode is enabled, the delay is unparsable; a /check
\* request was answered 200.
C19_Witness ==
    /\ env.SIMULATE_COLD_START = <<"1">>
    /\ env.COLD_START_DELAY_SECONDS = BadFloat
    /\ Ok200
    /\ ~_cold_start_pending

\* a step in which GET /health is answered
HealthStep == response' # response /\ response'.endpoint = "health"

\* C21: a /health request leaves the readiness flag, the warm-up lock, the
\* warm-up task and its wake-up time, and every counter of the limiter
\* unchanged; and when warm-up is enabled, as long as no /check request has
\* reached the limiter (health requests, clock ticks and file replacements
\* only), the state is Warming, with no lock and no timer task created.
C21_HealthReadOnly ==
    [][/\ HealthStep =>
             UNCHANGED <<_cold_start_pending, _cold_start_lock, _cold_start_task,
                         sleep_until, storage>>
       /\ (ColdStartPendingAtImport /\ Hits' = 0) =>
             /\ _cold_start_pending'
             /\ _cold_start_lock' = "None"
             /\ _cold_start_task' = "None"
             /\ hist'.tasks = 0]_vars

\* C21 witness: warm-up enabled with a delay of one tick, the clock has passed
\* the delay twice over, no /check request has been counted, and /health
\* still answers "initializing".
C21_Witness ==
    /\ env.COLD_START_DELAY_SECONDS = Num(1)
    /\ now >= 2
    /\ Hits = 0
    /\ _cold_start_pending
    /\ response.endpoint = "health"
    /\ response.health = "initializing"

\* the remote's ETag is the one the metadata recorded
EtagRecorded ==
    /\ refresh.remote.etag # NoEtag
    /\ refresh.metadata.etag = refresh.remote.etag

\* the digest of the remote's content is the one the metadata recorded
DigestRecorded == refresh.metadata.sha256 = _compute_sha256(refresh.remote.data)

\* whatever a reader read since the run started is the complete old or the
\* complete new content
AtomicToReaders ==
    refresh.seen # <<>> => refresh.seen[1] \in {refresh.old, refresh.remote.data}

\* an unforced run that finds the recorded ETag or the recorded digest leaves
\* the CSV file as it was
UntouchedWhenUpToDate ==
    (refresh.pc # "idle" /\ ~refresh.force /\ (EtagRecorded \/ DigestRecorded)) =>
        Disk = refresh.old

\* C22: at every point of a refresh run, a crash between two steps included,
\* a reader of the CSV file reads the complete old content or the complete
\* new content; and an unforced run leaves the file untouched when the
\* remote's ETag or the digest of the downloaded content is the recorded one.
C22_AtomicRefresh ==
    /\ AtomicToReaders
    /\ UntouchedWhenUpToDate

====
